---- MODULE Spec2Model ----
(***************************************************************************)
(* page-turner: the sequential driver (request_next_page), the ordered     *)
(* look-ahead scheduler (request_pages_ahead) and the unordered look-ahead *)
(* scheduler (request_pages_ahead_unordered) of src/src/internal, each     *)
(* wrapped in futures::stream::try_unfold as in src/src/local/mod.rs.      *)
(*                                                                         *)
(* A caller builds the three streams over one PageTurner (the backend) and *)
(* collects them one after another, as the tests of src/src/test_utils.rs  *)
(* do: `pages`, then `pages_ahead`, then `pages_ahead_unordered`.          *)
(***************************************************************************)
EXTENDS Integers, Sequences, FiniteSets, TLC

\* ------------------------------------------------------------------------
\* Bounds of the model
\* ------------------------------------------------------------------------
\* Number of requests for which the backend's answer is chosen freely; every
\* later request is past the end of the data and fails.
MaxPages == 3
\* Largest requests_ahead_count tried (0 is tried too).
MaxWindow == 3
\* Largest n of Limit::Pages(n) tried (Limit::None is tried too).
MaxLimit == 3
\* Most elements a caller of Chunks alone pulls from an unlimited sequence.
MaxItems == 4
\* Most calls of next_chunk and next_item that return None.
MaxNones == 2

\* The page of the initial request (DumbRequest::default()).
FirstPage == 1

\* Option<T>: None is the empty sequence, Some(x) the one-element sequence.
None == << >>
Some(x) == << x >>
IsSome(o) == o # None
Unwrap(o) == o[1]

\* ------------------------------------------------------------------------
\* Requests and the backend
\* ------------------------------------------------------------------------
\* RequestAhead::next_request of the test requests: page + 1.
next_request_of(req) == req + 1

\* derive_next applied i times to req.
RECURSIVE NthRequest(_, _)
NthRequest(req, i) == IF i = 0 THEN req ELSE NthRequest(next_request_of(req), i - 1)

\* The requests whose answer the backend chooses freely.
KnownRequests == { NthRequest(FirstPage, i) : i \in 0 .. (MaxPages - 1) }

\* What a backend does with one request:
\*   "err"  the fetch fails,
\*   "last" Ok(TurnedPage::last(items)),
\*   "next" Ok(TurnedPage::next(items, r)) with r = next_request_of(request),
\*   "skip" Ok(TurnedPage::next(items, r)) with r built differently from
\*          RequestAhead::next_request (one page further).
Answers == {"err", "last", "next", "skip"}
Backends == [KnownRequests -> Answers]

\* Limit: Limit::None is None, Limit::Pages(n) is Some(n).
Limits == {None} \cup { Some(n) : n \in 0 .. MaxLimit }

\* PageTurner::turn_page of backend b on request req: the page is identified
\* by the request it answers (BlogRecord(req.page)), an error by the request
\* that failed.
turn_page(b, req) ==
    IF req \notin DOMAIN b THEN [ok |-> FALSE, items |-> req, next_request |-> None]
    ELSE IF b[req] = "err" THEN [ok |-> FALSE, items |-> req, next_request |-> None]
    ELSE IF b[req] = "last" THEN [ok |-> TRUE, items |-> req, next_request |-> None]
    ELSE IF b[req] = "next"
         THEN [ok |-> TRUE, items |-> req, next_request |-> Some(next_request_of(req))]
    ELSE [ok |-> TRUE, items |-> req,
          next_request |-> Some(next_request_of(next_request_of(req)))]

\* ------------------------------------------------------------------------
\* RequestIter and Chunks (src/src/internal/itertools.rs)
\* ------------------------------------------------------------------------
\* RequestIter::new, followed by .enumerate(): `count` is Enumerate's counter
\* (the ordered scheduler does not enumerate and ignores it).
RequestIter_new(req, lim) ==
    [cur_request |-> Some(req), limit |-> lim, counter |-> 0, count |-> 0]

\* The limit test off by one: `self.counter > pages`.
LimitReached_off_by_one(it) == IsSome(it.limit) /\ it.counter > Unwrap(it.limit)

\* Does RequestIter::next stop because of the limit?
LimitReached(it) == IsSome(it.limit) /\ it.counter >= Unwrap(it.limit)

\* RequestIter::next without `self.counter += 1`.
RequestIter_next_without_counter(it) ==
    IF LimitReached(it)
    THEN [item |-> None, iter |-> it]
    ELSE [item |-> IF IsSome(it.cur_request)
                   THEN Some([num |-> it.count, req |-> Unwrap(it.cur_request)])
                   ELSE None,
          iter |-> [it EXCEPT
                      !.cur_request = IF IsSome(it.cur_request)
                                      THEN Some(next_request_of(Unwrap(it.cur_request)))
                                      ELSE None,
                      !.count = IF IsSome(it.cur_request) THEN it.count + 1 ELSE it.count]]

\* RequestIter::next without `self.cur_request = next_request`.
RequestIter_next_keeps_cur_request(it) ==
    IF LimitReached(it)
    THEN [item |-> None, iter |-> it]
    ELSE [item |-> IF IsSome(it.cur_request)
                   THEN Some([num |-> it.count, req |-> Unwrap(it.cur_request)])
                   ELSE None,
          iter |-> [it EXCEPT
                      !.counter = it.counter + 1,
                      !.count = IF IsSome(it.cur_request) THEN it.count + 1 ELSE it.count]]

\* RequestIter::next (and Enumerate::next on top of it): the item returned,
\* as Option<(usize, R)>, and the iterator afterwards.
RequestIter_next(it) ==
    IF LimitReached(it)
    THEN [item |-> None, iter |-> it]
    ELSE [item |-> IF IsSome(it.cur_request)
                   THEN Some([num |-> it.count, req |-> Unwrap(it.cur_request)])
                   ELSE None,
          iter |-> [it EXCEPT
                      !.cur_request = IF IsSome(it.cur_request)
                                      THEN Some(next_request_of(Unwrap(it.cur_request)))
                                      ELSE None,
                      !.counter = it.counter + 1,
                      !.count = IF IsSome(it.cur_request) THEN it.count + 1 ELSE it.count]]

\* next_item that pulls the next request without consulting the limit.
next_item_past_limit(it) ==
    LET n == RequestIter_next([it EXCEPT !.limit = None]) IN
    [item |-> n.item, iter |-> [n.iter EXCEPT !.limit = it.limit]]

\* Chunks::next_item
next_item(it) == RequestIter_next(it)

\* `for req in chunk` after Chunk::new(chunks, first): Chunk::next yields
\* `first`, then pulls from the iterator while yielded_count < chunk_size; the
\* loop stops at the first None. `yielded` is Chunk::yielded_count.
RECURSIVE ChunkRest(_, _, _)
ChunkRest(it, yielded, chunk_size) ==
    IF yielded < chunk_size
    THEN LET n == RequestIter_next(it) IN
         IF IsSome(n.item)
         THEN LET rest == ChunkRest(n.iter, yielded + 1, chunk_size) IN
              [items |-> << Unwrap(n.item) >> \o rest.items, iter |-> rest.iter]
         ELSE [items |-> << >>, iter |-> n.iter]
    ELSE [items |-> << >>, iter |-> it]

\* next_chunk whose chunk counts the seed as yielded before yielding it, as
\* the chunk of src/src/pages_ahead/mod.rs does: with chunk_size 1 the chunk
\* is returned and yields nothing.
next_chunk_counting_seed(it, chunk_size) ==
    IF chunk_size = 0
    THEN [some |-> FALSE, items |-> << >>, iter |-> it]
    ELSE LET first == RequestIter_next(it) IN
         IF IsSome(first.item)
         THEN IF 1 < chunk_size
              THEN LET rest == ChunkRest(first.iter, 1, chunk_size) IN
                   [some |-> TRUE, items |-> << Unwrap(first.item) >> \o rest.items,
                    iter |-> rest.iter]
              ELSE [some |-> TRUE, items |-> << >>, iter |-> first.iter]
         ELSE [some |-> FALSE, items |-> << >>, iter |-> first.iter]

\* next_chunk without the `chunk_size == 0` test.
next_chunk_without_zero_test(it, chunk_size) ==
    LET first == RequestIter_next(it) IN
    IF IsSome(first.item)
    THEN LET rest == ChunkRest(first.iter, 1, chunk_size) IN
         [some |-> TRUE, items |-> << Unwrap(first.item) >> \o rest.items,
          iter |-> rest.iter]
    ELSE [some |-> FALSE, items |-> << >>, iter |-> first.iter]

\* Chunks::next_chunk and the collection of the whole chunk: `some` tells
\* whether a chunk was returned, `items` are the requests it yielded.
next_chunk(it, chunk_size) ==
    IF chunk_size = 0
    THEN [some |-> FALSE, items |-> << >>, iter |-> it]
    ELSE LET first == RequestIter_next(it) IN
         IF IsSome(first.item)
         THEN LET rest == ChunkRest(first.iter, 1, chunk_size) IN
              [some |-> TRUE, items |-> << Unwrap(first.item) >> \o rest.items,
               iter |-> rest.iter]
         ELSE [some |-> FALSE, items |-> << >>, iter |-> first.iter]

\* Chunk::new that counts `first` as yielded already.
Chunk_new_counts_first(first) == [first |-> Some(first), yielded_count |-> 1]

\* Chunk::new: the chunk holds the element next_chunk pulled.
Chunk_new(first) == [first |-> Some(first), yielded_count |-> 0]

\* Chunks::next_chunk that pulls the first element whatever the chunk size.
Chunks_next_chunk_without_zero_test(it, chunk_size) ==
    LET n == RequestIter_next(it) IN
    [chunk |-> IF IsSome(n.item) THEN Some(Chunk_new(Unwrap(n.item))) ELSE None,
     iter |-> n.iter,
     pulled |-> << n.item >>]

\* Chunks::next_chunk, one call: the Option<Chunk> returned, the iterator
\* afterwards, and what the calls of iter.next() it made returned.
Chunks_next_chunk(it, chunk_size) ==
    IF chunk_size = 0
    THEN [chunk |-> None, iter |-> it, pulled |-> << >>]
    ELSE LET n == RequestIter_next(it) IN
         [chunk |-> IF IsSome(n.item) THEN Some(Chunk_new(Unwrap(n.item))) ELSE None,
          iter |-> n.iter,
          pulled |-> << n.item >>]

\* Chunk::next that pulls from the iterator before it tests yielded_count.
Chunk_next_pulling_first(chunk, it, chunk_size) ==
    IF IsSome(chunk.first)
    THEN IF chunk.yielded_count < chunk_size
         THEN [item |-> chunk.first,
               chunk |-> [first |-> None, yielded_count |-> chunk.yielded_count + 1],
               iter |-> it,
               pulled |-> << >>]
         ELSE [item |-> None, chunk |-> chunk, iter |-> it, pulled |-> << >>]
    ELSE LET n == RequestIter_next(it) IN
         IF chunk.yielded_count < chunk_size
         THEN [item |-> n.item,
               chunk |-> [chunk EXCEPT !.yielded_count = chunk.yielded_count + 1],
               iter |-> n.iter,
               pulled |-> << n.item >>]
         ELSE [item |-> None, chunk |-> chunk, iter |-> n.iter, pulled |-> << n.item >>]

\* Chunk::next, one call: the Option<Item> returned, the chunk and the
\* iterator afterwards, and what the calls of iter.next() it made returned.
Chunk_next(chunk, it, chunk_size) ==
    IF chunk.yielded_count < chunk_size
    THEN IF IsSome(chunk.first)
         THEN [item |-> chunk.first,
               chunk |-> [first |-> None, yielded_count |-> chunk.yielded_count + 1],
               iter |-> it,
               pulled |-> << >>]
         ELSE LET n == RequestIter_next(it) IN
              [item |-> n.item,
               chunk |-> [chunk EXCEPT !.yielded_count = chunk.yielded_count + 1],
               iter |-> n.iter,
               pulled |-> << n.item >>]
    ELSE [item |-> None, chunk |-> chunk, iter |-> it, pulled |-> << >>]

\* ------------------------------------------------------------------------
\* Chunks of the chunk-wise schedulers (src/src/pages_ahead/mod.rs); its
\* RequestIter is the one above, line for line.
\* ------------------------------------------------------------------------
\* `for req in chunk` once `first` was taken: Chunk::next counts, then pulls
\* from the iterator, while yielded_count < chunk_size; the loop stops at
\* the first None.
RECURSIVE chunkwise_ChunkRest(_, _, _)
chunkwise_ChunkRest(it, yielded, chunk_size) ==
    IF yielded < chunk_size
    THEN LET n == RequestIter_next(it) IN
         IF IsSome(n.item)
         THEN LET rest == chunkwise_ChunkRest(n.iter, yielded + 1, chunk_size) IN
              [items |-> << Unwrap(n.item) >> \o rest.items, iter |-> rest.iter]
         ELSE [items |-> << >>, iter |-> n.iter]
    ELSE [items |-> << >>, iter |-> it]

\* Chunks::next_chunk and `for req in chunk`: Chunk::new sets yielded_count
\* to 1, and Chunk::next tests yielded_count < chunk_size before it yields
\* `first`. `some` tells whether a chunk was returned, `seed` is the element
\* next_chunk pulled, `items` are the requests the chunk yielded.
chunkwise_next_chunk(it, chunk_size) ==
    IF chunk_size = 0
    THEN [some |-> FALSE, seed |-> None, items |-> << >>, iter |-> it]
    ELSE LET first == RequestIter_next(it) IN
         IF IsSome(first.item)
         THEN IF 1 < chunk_size
              THEN LET rest == chunkwise_ChunkRest(first.iter, 1, chunk_size) IN
                   [some |-> TRUE, seed |-> first.item,
                    items |-> << Unwrap(first.item) >> \o rest.items,
                    iter |-> rest.iter]
              ELSE [some |-> TRUE, seed |-> first.item, items |-> << >>,
                    iter |-> first.iter]
         ELSE [some |-> FALSE, seed |-> None, items |-> << >>, iter |-> first.iter]

\* ------------------------------------------------------------------------
\* State
\* ------------------------------------------------------------------------
VARIABLES
    \* the PageTurner implementor and the arguments of pages_ahead*()
    backend, requests_ahead_count, limit,
    \* which stream the caller is collecting
    turn,
    \* pages(): PagesState::next_request, the fetch being awaited, the state
    \* of the try_unfold stream, what the stream yielded, the fetches issued
    p_next_request, p_in_flight, p_stream, p_out, p_calls,
    \* pages_ahead(): PagesAheadState (requests, in_progress with the outputs
    \* FuturesOrdered holds back, last_page_queried), position in
    \* request_pages_ahead, the state of the stream, what it yielded
    o_requests, o_in_progress, o_ready, o_last_page_queried, o_pc, o_stream, o_out,
    \* pages_ahead_unordered(): PagesAheadUnorderedState (numbered_requests,
    \* in_progress, first_error, last_page), position in
    \* request_pages_ahead_unordered, the state of the stream, what it yielded
    u_numbered_requests, u_in_progress, u_first_error, u_last_page, u_pc, u_stream, u_out,
    \* the outputs in_progress.next() has yielded to the unordered step since
    \* the pull it belongs to began
    u_taken,
    \* a caller of Chunks<Enumerate<RequestIter>> on its own: Chunks::iter (the
    \* chunk size is requests_ahead_count), the Chunk it holds, what each call
    \* of iter.next() returned, the elements each chunk yielded, the calls of
    \* next_chunk that returned None, what each next_item returned, whether a
    \* chunk was dropped before it yielded None, the elements handed to the
    \* caller by Chunk::next and next_item, in the order of the calls
    c_iter, c_chunk, c_returned, c_chunks, c_no_chunk, c_next_items, c_partial,
    c_delivered,
    \* the chunk-wise pages_ahead_unordered() of src/src/lib.rs: StreamState
    \* of src/src/pages_ahead/unordered.rs (req_chunks, futures,
    \* last_page_queried, last_error), position in request_next_page, the
    \* state of the stream, what it yielded, the fetches issued
    w_req_chunks, w_futures, w_last_page_queried, w_last_error, w_pc, w_stream, w_out, w_calls

cfgVars == << backend, requests_ahead_count, limit >>
pVars == << p_next_request, p_in_flight, p_stream, p_out, p_calls >>
oVars == << o_requests, o_in_progress, o_ready, o_last_page_queried, o_pc, o_stream, o_out >>
uVars == << u_numbered_requests, u_in_progress, u_first_error, u_last_page, u_pc, u_stream, u_out,
           u_taken >>
cVars == << c_iter, c_chunk, c_returned, c_chunks, c_no_chunk, c_next_items, c_partial,
           c_delivered >>
wVars == << w_req_chunks, w_futures, w_last_page_queried, w_last_error, w_pc, w_stream,
           w_out, w_calls >>
vars == << cfgVars, turn, pVars, oVars, uVars, cVars, wVars >>

\* What a stream yields on one pull.
PageEvent(num, items) == << "page", num, items >>
ErrEvent(num, err) == << "err", num, err >>
EndEvent == << "end" >>

\* PagesState::new, PagesAheadState::new, PagesAheadUnorderedState::new under
\* stream::try_unfold.
Init ==
    /\ backend \in Backends
    /\ requests_ahead_count \in 0 .. MaxWindow
    /\ limit \in Limits
    /\ turn = "pages"
    /\ p_next_request = Some(FirstPage)
    /\ p_in_flight = None
    /\ p_stream = "live"
    /\ p_out = << >>
    /\ p_calls = << >>
    /\ o_requests = RequestIter_new(FirstPage, limit)
    /\ o_in_progress = << >>
    /\ o_ready = {}
    /\ o_last_page_queried = FALSE
    /\ o_pc = "idle"
    /\ o_stream = "live"
    /\ o_out = << >>
    /\ u_numbered_requests = RequestIter_new(FirstPage, limit)
    /\ u_in_progress = {}
    /\ u_first_error = None
    /\ u_last_page = None
    /\ u_pc = "idle"
    /\ u_stream = "live"
    /\ u_out = << >>
    /\ u_taken = 0
    /\ c_iter = RequestIter_new(FirstPage, limit)
    /\ c_chunk = None
    /\ c_returned = << >>
    /\ c_chunks = << >>
    /\ c_no_chunk = 0
    /\ c_next_items = << >>
    /\ c_partial = FALSE
    /\ c_delivered = << >>
    /\ w_req_chunks = RequestIter_new(FirstPage, limit)
    /\ w_futures = {}
    /\ w_last_page_queried = FALSE
    /\ w_last_error = None
    /\ w_pc = "idle"
    /\ w_stream = "live"
    /\ w_out = << >>
    /\ w_calls = << >>

\* ------------------------------------------------------------------------
\* stream::try_unfold
\* ------------------------------------------------------------------------
\* An unfold that calls the step function again after it returned an error.
try_unfold_keeps_state_on_err(ret) ==
    IF ret[1] = "page" \/ ret[1] = "err" THEN "live" ELSE "ended"

\* What one completed call of the step function does to the stream. `ret` is
\* <<"err", ..>> for Err(e), <<"end">> for Ok(None) and <<"page", ..>> for
\* Ok(Some((items, state))).
try_unfold_state(ret) ==
    IF ret[1] = "page" THEN "live"
    ELSE IF ret[1] = "err" THEN "failed"
    ELSE "ended"

\* The caller stops collecting a stream when it yields None and goes on to
\* the next stream.
next_turn(t, ret) ==
    IF ret[1] # "end" THEN t
    ELSE IF t = "pages" THEN "pages_ahead"
    ELSE IF t = "pages_ahead" THEN "pages_ahead_unordered"
    ELSE "finished"

\* ------------------------------------------------------------------------
\* pages(): request_next_page (src/src/internal/pages.rs)
\* ------------------------------------------------------------------------
\* Pull of the stream up to the await of turn_page.
PagesPoll ==
    /\ turn = "pages"
    /\ p_in_flight = None
    /\ IF p_stream = "live" /\ IsSome(p_next_request)
       THEN /\ p_in_flight' = p_next_request
            /\ p_calls' = Append(p_calls, Unwrap(p_next_request))
            /\ UNCHANGED << p_next_request, p_stream, p_out, turn >>
       ELSE /\ p_out' = Append(p_out, EndEvent)
            /\ p_stream' = try_unfold_state(EndEvent)
            /\ turn' = next_turn(turn, EndEvent)
            /\ UNCHANGED << p_next_request, p_in_flight, p_calls >>
    /\ UNCHANGED << wVars, cVars, cfgVars, oVars, uVars >>

\* A completion that derives the next request from the request just
\* answered, as the look-ahead schedulers do, and not from the response.
PagesResume_derives_next ==
    /\ turn = "pages"
    /\ IsSome(p_in_flight)
    /\ LET req == Unwrap(p_in_flight)
           r == turn_page(backend, req)
           ret == IF r.ok THEN PageEvent(Len(p_calls) - 1, r.items)
                  ELSE ErrEvent(Len(p_calls) - 1, r.items)
       IN /\ p_in_flight' = None
          /\ p_next_request' = IF r.ok THEN Some(next_request_of(req)) ELSE None
          /\ p_out' = Append(p_out, ret)
          /\ p_stream' = try_unfold_state(ret)
    /\ UNCHANGED << wVars, cVars, cfgVars, turn, p_calls, oVars, uVars >>

\* turn_page completes: `?` on an error, else state.next_request = next_request.
PagesResume ==
    /\ turn = "pages"
    /\ IsSome(p_in_flight)
    /\ LET req == Unwrap(p_in_flight)
           r == turn_page(backend, req)
           ret == IF r.ok THEN PageEvent(Len(p_calls) - 1, r.items)
                  ELSE ErrEvent(Len(p_calls) - 1, r.items)
       IN /\ p_in_flight' = None
          /\ p_next_request' = IF r.ok THEN r.next_request ELSE None
          /\ p_out' = Append(p_out, ret)
          /\ p_stream' = try_unfold_state(ret)
    /\ UNCHANGED << wVars, cVars, cfgVars, turn, p_calls, oVars, uVars >>

\* ------------------------------------------------------------------------
\* pages_ahead(): request_pages_ahead (src/src/internal/pages_ahead.rs)
\* ------------------------------------------------------------------------
\* Scheduling by whole chunks only: nothing is pushed while fetches are in
\* flight.
ordered_schedule_without_refill(requests, in_progress, chunk_size) ==
    IF in_progress = << >>
    THEN LET chunk == next_chunk(requests, chunk_size) IN
         [stop |-> ~chunk.some, pushed |-> chunk.items, iter |-> chunk.iter]
    ELSE [stop |-> FALSE, pushed |-> << >>, iter |-> requests]

\* The scheduling half of a step: what is pushed to in_progress. `stop` is
\* the `return Ok(None)` of an exhausted request sequence.
ordered_schedule(requests, in_progress, chunk_size) ==
    IF in_progress = << >>
    THEN LET chunk == next_chunk(requests, chunk_size) IN
         [stop |-> ~chunk.some, pushed |-> chunk.items, iter |-> chunk.iter]
    ELSE LET n == next_item(requests) IN
         [stop |-> FALSE,
          pushed |-> IF IsSome(n.item) THEN << Unwrap(n.item) >> ELSE << >>,
          iter |-> n.iter]

\* A queue that hands out whatever output is there first: the newest future
\* that has completed, the head only when nothing else has.
ordered_next_output_any_ready(in_progress, ready) ==
    IF \E i \in 1 .. Len(in_progress) : in_progress[i].num \in ready
    THEN LET i == CHOOSE j \in 1 .. Len(in_progress) :
                      /\ in_progress[j].num \in ready
                      /\ \A l \in 1 .. Len(in_progress) :
                            in_progress[l].num \in ready => l <= j
         IN in_progress[i]
    ELSE Head(in_progress)

\* A queue that hands out a failed output as soon as it is there, wherever
\* its future sits, and the head otherwise.
ordered_next_output_failed_first(in_progress, ready) ==
    IF \E i \in 1 .. Len(in_progress) :
          /\ in_progress[i].num \in ready
          /\ ~turn_page(backend, in_progress[i].req).ok
    THEN LET i == CHOOSE j \in 1 .. Len(in_progress) :
                      /\ in_progress[j].num \in ready
                      /\ ~turn_page(backend, in_progress[j].req).ok
         IN in_progress[i]
    ELSE Head(in_progress)

\* FuturesOrdered::try_next: the future whose output is handed out next is
\* the oldest one of the queue, whatever has completed behind it.
ordered_next_output(in_progress, ready) == Head(in_progress)

\* A flag set by the value of the next request: unless the response names
\* the request derive_next gives.
last_page_queried_by_value(r) == r.next_request # Some(next_request_of(r.items))

\* A flag that is never set.
last_page_queried_never(r) == FALSE

\* The test inverted: next_request.is_some().
last_page_queried_inverted(r) == r.next_request # None

\* `state.last_page_queried = next_request.is_none()`
last_page_queried_after(r) == r.next_request = None

\* A step that ends the stream on a failed fetch instead of returning it.
ordered_return_swallows_error(f, r) ==
    IF r.ok THEN PageEvent(f.num, r.items) ELSE EndEvent

\* What the step returns once the awaited output `r` of future `f` is there.
ordered_return(f, r) ==
    IF r.ok THEN PageEvent(f.num, r.items) ELSE ErrEvent(f.num, r.items)

\* Pull of the stream: the step up to `state.in_progress.try_next().await`.
PagesAheadPoll ==
    /\ turn = "pages_ahead"
    /\ o_pc = "idle"
    /\ IF o_stream # "live" \/ o_last_page_queried
       THEN /\ o_out' = Append(o_out, EndEvent)
            /\ o_stream' = try_unfold_state(EndEvent)
            /\ turn' = next_turn(turn, EndEvent)
            /\ UNCHANGED << o_requests, o_in_progress, o_ready, o_last_page_queried, o_pc >>
       ELSE LET s == ordered_schedule(o_requests, o_in_progress, requests_ahead_count) IN
            /\ o_requests' = s.iter
            /\ o_in_progress' = o_in_progress \o s.pushed
            /\ IF s.stop
               THEN /\ o_out' = Append(o_out, EndEvent)
                    /\ o_stream' = try_unfold_state(EndEvent)
                    /\ turn' = next_turn(turn, EndEvent)
                    /\ o_pc' = "idle"
               ELSE IF o_in_progress' = << >>
               THEN \* unreachable!("BUG(page-turner): ...")
                    /\ o_out' = Append(o_out, << "panic" >>)
                    /\ o_stream' = "ended"
                    /\ turn' = "finished"
                    /\ o_pc' = "idle"
               ELSE /\ o_pc' = "await"
                    /\ UNCHANGED << o_out, o_stream, turn >>
            /\ UNCHANGED << o_ready, o_last_page_queried >>
    /\ UNCHANGED << wVars, cVars, cfgVars, pVars, uVars >>

\* While the step awaits, a fetch behind the head of the queue completes;
\* FuturesOrdered keeps its output back.
PagesAheadFetchDone(num) ==
    /\ turn = "pages_ahead"
    /\ o_pc = "await"
    /\ \E i \in 2 .. Len(o_in_progress) : o_in_progress[i].num = num
    /\ num \notin o_ready
    /\ o_ready' = o_ready \cup {num}
    /\ UNCHANGED << wVars, cVars, cfgVars, turn, pVars, uVars, o_requests, o_in_progress,
                    o_last_page_queried, o_pc, o_stream, o_out >>

\* try_next() hands out an output: `?` on an error (the state, and with it
\* the rest of the queue, is dropped), else last_page_queried is assigned.
PagesAheadResume ==
    /\ turn = "pages_ahead"
    /\ o_pc = "await"
    /\ LET f == ordered_next_output(o_in_progress, o_ready)
           r == turn_page(backend, f.req)
           ret == ordered_return(f, r)
       IN /\ f.num = Head(o_in_progress).num \/ f.num \in o_ready
          /\ o_in_progress' = IF r.ok
                              THEN SelectSeq(o_in_progress, LAMBDA g : g.num # f.num)
                              ELSE << >>
          /\ o_ready' = IF r.ok THEN o_ready \ {f.num} ELSE {}
          /\ o_last_page_queried' = IF r.ok THEN last_page_queried_after(r)
                                    ELSE o_last_page_queried
          /\ o_out' = Append(o_out, ret)
          /\ o_stream' = try_unfold_state(ret)
          /\ o_pc' = "idle"
    /\ UNCHANGED << wVars, cVars, cfgVars, turn, pVars, uVars, o_requests >>

\* ------------------------------------------------------------------------
\* pages_ahead_unordered(): request_pages_ahead_unordered
\* (src/src/internal/pages_ahead_unordered.rs)
\* ------------------------------------------------------------------------
\* update_err that keeps the error seen last.
update_err_last_wins(first_error, new_err_num, new_err) ==
    Some([num |-> new_err_num, err |-> new_err])

\* update_err that keeps the error seen first, whatever its index.
update_err_first_seen(first_error, new_err_num, new_err) ==
    IF IsSome(first_error)
    THEN first_error
    ELSE Some([num |-> new_err_num, err |-> new_err])

\* PagesAheadUnorderedState::update_err: first_error is None or
\* Some((num, err)), here Some([num |-> .., err |-> ..]).
update_err(first_error, new_err_num, new_err) ==
    IF IsSome(first_error)
    THEN IF new_err_num < Unwrap(first_error).num
         THEN Some([num |-> new_err_num, err |-> new_err])
         ELSE first_error
    ELSE Some([num |-> new_err_num, err |-> new_err])

\* The drained loop returning any retained error, wherever it occurred.
drained_return_unchecked(first_error, last_page_num) ==
    IF IsSome(first_error)
    THEN ErrEvent(Unwrap(first_error).num, Unwrap(first_error).err)
    ELSE EndEvent

\* The drained loop with the comparison the wrong way round.
drained_return_reversed(first_error, last_page_num) ==
    IF IsSome(first_error) /\ last_page_num <= Unwrap(first_error).num
    THEN ErrEvent(Unwrap(first_error).num, Unwrap(first_error).err)
    ELSE EndEvent

\* `match state.first_error.take()` once in_progress has drained and the
\* last page is known.
drained_return(first_error, last_page_num) ==
    IF IsSome(first_error) /\ Unwrap(first_error).num <= last_page_num
    THEN ErrEvent(Unwrap(first_error).num, Unwrap(first_error).err)
    ELSE EndEvent

\* `None => return Err(state.first_error.unwrap().1)`
first_error_return(first_error) ==
    ErrEvent(Unwrap(first_error).num, Unwrap(first_error).err)

\* Loops that return the retained error at once instead of draining
\* in_progress first.
unordered_await_returns_on_error(last_page, first_error, in_progress) ==
    IF in_progress = {} \/ IsSome(first_error) THEN "return"
    ELSE IF IsSome(last_page) THEN "drain"
    ELSE "errors"

\* Loops that wait for a completion though in_progress is empty.
unordered_await_on_empty(last_page, first_error, in_progress) ==
    IF IsSome(last_page) THEN "drain" ELSE "errors"

\* The await the loop stops at, or "return" when in_progress.next() yields
\* None at once: "drain" is the `while let` under a known last page,
\* "errors" the `while state.first_error.is_some()`.
unordered_await(last_page, first_error, in_progress) ==
    IF in_progress = {} THEN "return"
    ELSE IF IsSome(last_page) THEN "drain"
    ELSE "errors"

\* A return that propagates the retained error whenever there is one, the
\* last page known or not.
unordered_empty_return_propagates(last_page, first_error) ==
    IF IsSome(first_error)
    THEN first_error_return(first_error)
    ELSE EndEvent

\* What the loop returns when in_progress.next() yields None in one of the
\* two draining loops.
unordered_empty_return(last_page, first_error) ==
    IF IsSome(last_page)
    THEN drained_return(first_error, Unwrap(last_page))
    ELSE first_error_return(first_error)

\* Scheduling that takes a whole chunk on every step.
unordered_schedule_chunk_always(numbered_requests, in_progress, chunk_size) ==
    LET chunk == next_chunk(numbered_requests, chunk_size) IN
    [stop |-> ~chunk.some /\ in_progress = {},
     pushed |-> { chunk.items[i] : i \in 1 .. Len(chunk.items) },
     iter |-> chunk.iter]

\* The scheduling part of the loop body ("// Schedule").
unordered_schedule(numbered_requests, in_progress, chunk_size) ==
    IF in_progress = {}
    THEN LET chunk == next_chunk(numbered_requests, chunk_size) IN
         [stop |-> ~chunk.some,
          pushed |-> { chunk.items[i] : i \in 1 .. Len(chunk.items) },
          iter |-> chunk.iter]
    ELSE LET n == next_item(numbered_requests) IN
         [stop |-> FALSE,
          pushed |-> IF IsSome(n.item) THEN { Unwrap(n.item) } ELSE {},
          iter |-> n.iter]

\* A loop that skips the waiting under a retained error.
unordered_may_schedule_after_error(last_page, first_error) ==
    ~IsSome(last_page)

\* A loop that skips the draining under a known last page.
unordered_may_schedule_after_last_page(last_page, first_error) ==
    ~IsSome(first_error)

\* May the loop reach "// Schedule"?
unordered_may_schedule(last_page, first_error) ==
    ~IsSome(last_page) /\ ~IsSome(first_error)

\* The step returns `ret`: try_unfold keeps or drops the state.
UnorderedReturn(ret) ==
    /\ u_out' = Append(u_out, ret)
    /\ u_stream' = try_unfold_state(ret)
    /\ turn' = next_turn(turn, ret)
    /\ u_pc' = "idle"

\* Pull of the stream: the step up to its first await, or its return when no
\* await is reached.
UnorderedPoll ==
    /\ turn = "pages_ahead_unordered"
    /\ u_pc = "idle"
    /\ u_taken' = 0
    /\ IF u_stream # "live"
       THEN /\ UnorderedReturn(EndEvent)
            /\ UNCHANGED << u_numbered_requests, u_in_progress, u_first_error, u_last_page >>
       ELSE IF ~unordered_may_schedule(u_last_page, u_first_error)
       THEN LET at == unordered_await(u_last_page, u_first_error, u_in_progress) IN
            IF at = "return"
            THEN /\ UnorderedReturn(unordered_empty_return(u_last_page, u_first_error))
                 /\ u_first_error' = IF IsSome(u_last_page) THEN None ELSE u_first_error
                 /\ UNCHANGED << u_numbered_requests, u_in_progress, u_last_page >>
            ELSE /\ u_pc' = at
                 /\ UNCHANGED << u_numbered_requests, u_in_progress, u_first_error,
                                 u_last_page, u_stream, u_out, turn >>
       ELSE LET s == unordered_schedule(u_numbered_requests, u_in_progress,
                                        requests_ahead_count) IN
            /\ u_numbered_requests' = s.iter
            /\ u_in_progress' = u_in_progress \cup s.pushed
            /\ IF s.stop
               THEN UnorderedReturn(EndEvent)
               ELSE IF u_in_progress' = {}
               THEN \* unreachable!("BUG(page-turner): ...")
                    /\ u_out' = Append(u_out, << "panic" >>)
                    /\ u_stream' = "ended"
                    /\ turn' = "finished"
                    /\ u_pc' = "idle"
               ELSE /\ u_pc' = "schedule"
                    /\ UNCHANGED << u_out, u_stream, turn >>
            /\ UNCHANGED << u_first_error, u_last_page >>
    /\ UNCHANGED << wVars, cVars, cfgVars, pVars, oVars >>

\* in_progress.next() yields the output of future f, the first one to
\* complete, at the await the step is suspended at.
UnorderedResume(f) ==
    /\ turn = "pages_ahead_unordered"
    /\ u_pc \in {"drain", "errors", "schedule"}
    /\ f \in u_in_progress
    /\ u_taken' = u_taken + 1
    /\ LET r == turn_page(backend, f.req) IN
       /\ u_in_progress' = u_in_progress \ {f}
       /\ IF r.ok
          THEN /\ u_last_page' = IF u_pc # "drain" /\ r.next_request = None
                                 THEN Some(f.num)
                                 ELSE u_last_page
               /\ UnorderedReturn(PageEvent(f.num, r.items))
               /\ UNCHANGED u_first_error
          ELSE LET err == update_err(u_first_error, f.num, r.items)
                   at == unordered_await(u_last_page, err, u_in_progress')
               IN /\ UNCHANGED u_last_page
                  /\ IF at = "return"
                     THEN /\ UnorderedReturn(unordered_empty_return(u_last_page, err))
                          /\ u_first_error' = IF IsSome(u_last_page) THEN None ELSE err
                     ELSE /\ u_first_error' = err
                          /\ u_pc' = at
                          /\ UNCHANGED << u_out, u_stream, turn >>
    /\ UNCHANGED << wVars, cVars, cfgVars, pVars, oVars, u_numbered_requests >>

\* ------------------------------------------------------------------------
\* The chunk-wise pages_ahead_unordered(): request_next_page
\* (src/src/pages_ahead/unordered.rs)
\* ------------------------------------------------------------------------
\* The step returns `ret`: try_unfold keeps or drops the state.
ChunkwiseReturn(ret) ==
    /\ w_out' = Append(w_out, ret)
    /\ w_stream' = try_unfold_state(ret)
    /\ w_pc' = "idle"

\* A pass of the outer loop up to the inner loop: on a pull of the stream
\* (w_pc = "idle") or after the inner loop broke (w_pc = "loop"). The guard
\* on the requests pulled caps the passes of a loop that never returns.
ChunkwisePoll ==
    /\ w_pc \in {"idle", "loop"}
    /\ w_stream # "ended"
    /\ w_req_chunks.count <= MaxPages + MaxWindow
    /\ IF w_stream # "live"
       THEN /\ ChunkwiseReturn(EndEvent)
            /\ UNCHANGED << w_req_chunks, w_futures, w_last_page_queried, w_last_error,
                            w_calls >>
       ELSE IF w_futures # {}
       THEN /\ w_pc' = "await"
            /\ UNCHANGED << w_req_chunks, w_futures, w_last_page_queried, w_last_error,
                            w_stream, w_out, w_calls >>
       ELSE IF w_last_page_queried
       THEN /\ ChunkwiseReturn(EndEvent)
            /\ UNCHANGED << w_req_chunks, w_futures, w_last_page_queried, w_last_error,
                            w_calls >>
       ELSE IF IsSome(w_last_error)
       THEN /\ ChunkwiseReturn(ErrEvent(Unwrap(w_last_error).num, Unwrap(w_last_error).err))
            /\ UNCHANGED << w_req_chunks, w_futures, w_last_page_queried, w_last_error,
                            w_calls >>
       ELSE LET chunk == chunkwise_next_chunk(w_req_chunks, requests_ahead_count) IN
            /\ w_req_chunks' = chunk.iter
            /\ w_futures' = { chunk.items[i] : i \in 1 .. Len(chunk.items) }
            /\ w_calls' = w_calls \o [i \in 1 .. Len(chunk.items) |-> chunk.items[i].req]
            /\ IF chunk.some
               THEN /\ w_pc' = "await"
                    /\ UNCHANGED << w_stream, w_out >>
               ELSE ChunkwiseReturn(EndEvent)
            /\ UNCHANGED << w_last_page_queried, w_last_error >>
    /\ UNCHANGED << cfgVars, turn, pVars, oVars, uVars, cVars >>

\* futures.try_next() yields the output of future f, the first one to
\* complete: a page is returned, an error is kept and the inner loop goes on.
ChunkwiseResume(f) ==
    /\ w_pc = "await"
    /\ f \in w_futures
    /\ LET r == turn_page(backend, f.req) IN
       /\ w_futures' = w_futures \ {f}
       /\ IF r.ok
          THEN /\ w_last_page_queried' = (r.next_request = None)
               /\ ChunkwiseReturn(PageEvent(f.num, r.items))
               /\ UNCHANGED w_last_error
          ELSE /\ w_last_error' = Some([num |-> f.num, err |-> r.items])
               /\ UNCHANGED << w_last_page_queried, w_pc, w_stream, w_out >>
    /\ UNCHANGED << cfgVars, turn, pVars, oVars, uVars, cVars, w_req_chunks, w_calls >>

\* futures.try_next() yields Ok(None), futures being empty: the inner loop
\* breaks and the outer loop starts over.
ChunkwiseDrained ==
    /\ w_pc = "await"
    /\ w_futures = {}
    /\ w_pc' = "loop"
    /\ UNCHANGED << cfgVars, turn, pVars, oVars, uVars, cVars, w_req_chunks, w_futures,
                    w_last_page_queried, w_last_error, w_stream, w_out, w_calls >>

\* ------------------------------------------------------------------------
\* A caller of Chunks<Enumerate<RequestIter>> (src/src/internal/itertools.rs)
\* ------------------------------------------------------------------------
\* The calls of next_chunk and next_item that returned None so far.
NoneCalls == c_no_chunk + Cardinality({ i \in DOMAIN c_next_items : c_next_items[i] = None })

\* May the caller make a call that pulls from the iterator? (The cap on the
\* elements of an unlimited sequence and on the calls that return None.)
MayPull ==
    IF LimitReached(c_iter) THEN NoneCalls < MaxNones ELSE c_iter.count < MaxItems

\* chunks.next_chunk(), with no Chunk borrowing `chunks`.
ChunksNextChunk ==
    /\ c_chunk = None
    /\ IF requests_ahead_count = 0 THEN NoneCalls < MaxNones ELSE MayPull
    /\ LET r == Chunks_next_chunk(c_iter, requests_ahead_count) IN
       /\ c_iter' = r.iter
       /\ c_chunk' = r.chunk
       /\ c_returned' = c_returned \o r.pulled
       /\ c_chunks' = IF IsSome(r.chunk) THEN Append(c_chunks, << >>) ELSE c_chunks
       /\ c_no_chunk' = IF IsSome(r.chunk) THEN c_no_chunk ELSE c_no_chunk + 1
    /\ UNCHANGED << c_next_items, c_partial, c_delivered, cfgVars, turn, pVars, oVars, uVars, wVars >>

\* chunk.next() in `for req in chunk`: the loop ends, and the chunk is
\* dropped, when it yields None.
ChunkNext ==
    /\ IsSome(c_chunk)
    /\ LET chunk == Unwrap(c_chunk)
           r == Chunk_next(chunk, c_iter, requests_ahead_count)
       IN /\ (chunk.yielded_count < requests_ahead_count /\ ~IsSome(chunk.first))
                => (LimitReached(c_iter) \/ c_iter.count < MaxItems)
          /\ c_iter' = r.iter
          /\ c_chunk' = IF IsSome(r.item) THEN Some(r.chunk) ELSE None
          /\ c_returned' = c_returned \o r.pulled
          /\ c_chunks' = IF IsSome(r.item)
                         THEN [c_chunks EXCEPT ![Len(c_chunks)] = Append(@, Unwrap(r.item))]
                         ELSE c_chunks
          /\ c_delivered' = c_delivered \o r.item
    /\ UNCHANGED << c_no_chunk, c_next_items, c_partial, cfgVars, turn, pVars, oVars, uVars, wVars >>

\* The chunk is dropped before it yielded None.
ChunkDrop ==
    /\ IsSome(c_chunk)
    /\ c_chunk' = None
    /\ c_partial' = TRUE
    /\ UNCHANGED << c_iter, c_returned, c_chunks, c_no_chunk, c_next_items, c_delivered,
                    cfgVars, turn, pVars, oVars, uVars, wVars >>

\* chunks.next_item(), with no Chunk borrowing `chunks`.
ChunksNextItem ==
    /\ c_chunk = None
    /\ MayPull
    /\ LET n == next_item(c_iter) IN
       /\ c_iter' = n.iter
       /\ c_returned' = Append(c_returned, n.item)
       /\ c_next_items' = Append(c_next_items, n.item)
       /\ c_delivered' = c_delivered \o n.item
    /\ UNCHANGED << c_chunk, c_chunks, c_no_chunk, c_partial, cfgVars, turn, pVars, oVars, uVars, wVars >>

\* ------------------------------------------------------------------------
\* Specification
\* ------------------------------------------------------------------------
Next ==
    \/ PagesPoll
    \/ PagesResume
    \/ PagesAheadPoll
    \/ \E num \in 0 .. (MaxPages + MaxWindow) : PagesAheadFetchDone(num)
    \/ PagesAheadResume
    \/ UnorderedPoll
    \/ \E f \in u_in_progress : UnorderedResume(f)

Spec == Init /\ [][Next]_vars

\* RequestIter and Chunks on their own: every chunk size and limit, the
\* streams not pulled.
InitItertools == Init /\ backend = [r \in KnownRequests |-> "next"]

NextItertools ==
    \/ ChunksNextChunk
    \/ ChunkNext
    \/ ChunkDrop
    \/ ChunksNextItem

SpecItertools == InitItertools /\ [][NextItertools]_vars

\* The chunk-wise unordered stream on its own, for every backend, chunk
\* size and limit.
NextChunkwise ==
    \/ ChunkwisePoll
    \/ \E f \in w_futures : ChunkwiseResume(f)
    \/ ChunkwiseDrained

SpecChunkwise == Init /\ [][NextChunkwise]_vars

\* The three streams with a backend that answers the fetches of the
\* unordered stream in the order in which they were scheduled.
NextInOrder ==
    \/ PagesPoll
    \/ PagesResume
    \/ PagesAheadPoll
    \/ \E num \in 0 .. (MaxPages + MaxWindow) : PagesAheadFetchDone(num)
    \/ PagesAheadResume
    \/ UnorderedPoll
    \/ \E f \in u_in_progress :
          /\ \A g \in u_in_progress : f.num <= g.num
          /\ UnorderedResume(f)

SpecInOrder == Init /\ [][NextInOrder]_vars

\* ------------------------------------------------------------------------
\* Vocabulary of the properties
\* ------------------------------------------------------------------------
\* The request with index i of the request sequence.
Request(i) == NthRequest(FirstPage, i)
\* The backend's answer to the request with index i.
Answer(i) == turn_page(backend, Request(i))
Fails(i) == ~Answer(i).ok
IsLastPage(i) == Answer(i).ok /\ Answer(i).next_request = None

PagesOf(out) == SelectSeq(out, LAMBDA e : e[1] = "page")
ItemsOf(out) == [i \in 1 .. Len(PagesOf(out)) |-> PagesOf(out)[i][3]]
PageNums(out) == { out[i][2] : i \in { j \in 1 .. Len(out) : out[j][1] = "page" } }
ErrPositions(out) == { i \in 1 .. Len(out) : out[i][1] = "err" }
HasErr(out) == ErrPositions(out) # {}
Count(seq, x) == Cardinality({ i \in 1 .. Len(seq) : seq[i] = x })
IsPrefix(s, t) == Len(s) <= Len(t) /\ \A i \in 1 .. Len(s) : s[i] = t[i]

\* The indices the unordered scheduler has scheduled so far.
UnorderedScheduled == 0 .. (u_numbered_requests.count - 1)

\* Requests 0..L succeed, L is the only one answered without a next request,
\* every later request fails.
PastEndBackend(L) ==
    \A i \in 0 .. (MaxPages - 1) :
        /\ i < L => (Answer(i).ok /\ IsSome(Answer(i).next_request))
        /\ i = L => IsLastPage(i)
        /\ i > L => Fails(i)

\* The fetch chains its requests as RequestAhead::next_request does.
ChainMatches == \A r \in KnownRequests : backend[r] # "skip"

\* The lowest index of a failing request (the requests past the known ones
\* all fail).
LowestFailing == CHOOSE k \in 0 .. MaxPages : Fails(k) /\ \A j \in 0 .. (k - 1) : ~Fails(j)

\* ------------------------------------------------------------------------
\* C1..C10
\* ------------------------------------------------------------------------
\* C1: the i-th page the ordered scheduler emits is the response to request
\* index i (derive_next applied i times to the initial request), whatever
\* completed first behind the head of the queue.
C1_OrderedEmitsInRequestOrder ==
    \A i \in 1 .. Len(PagesOf(o_out)) :
        /\ PagesOf(o_out)[i][2] = i - 1
        /\ PagesOf(o_out)[i][3] = Request(i - 1)

\* Two pages were emitted in order while the output of a later request,
\* completed before them, is still held back.
C1_Witness ==
    /\ requests_ahead_count >= 2
    /\ o_pc = "idle"
    /\ o_ready # {}
    /\ Len(PagesOf(o_out)) >= 2

\* C2: when requests 0..L succeed, L is the last page and every later request
\* fails, the unordered stream never surfaces an error (it ends with
\* stream-end); and an error surfaced under a known last page never has an
\* index above it.
C2_PastEndErrorsDiscarded ==
    /\ ((\E L \in 0 .. (MaxPages - 1) : PastEndBackend(L)) /\ requests_ahead_count >= 1)
          => (~HasErr(u_out) /\ u_stream # "failed")
    /\ \A i \in ErrPositions(u_out) :
          IsSome(u_last_page) => u_out[i][2] <= Unwrap(u_last_page)

\* The stream ended cleanly although requests past the last page were
\* scheduled and failed.
C2_Witness ==
    /\ \E L \in 0 .. (MaxPages - 1) : PastEndBackend(L)
    /\ requests_ahead_count >= 2
    /\ u_stream = "ended"
    /\ ~HasErr(u_out)
    /\ IsSome(u_last_page)
    /\ u_numbered_requests.count > Unwrap(u_last_page) + 1

\* C3: in runs where neither stream surfaces an error, the unordered
\* scheduler emits the same multiset of pages as the ordered scheduler.
C3_SameMultisetAsOrdered ==
    (turn = "finished" /\ ~HasErr(o_out) /\ ~HasErr(u_out))
        => \A i \in 0 .. (MaxPages + MaxWindow) :
              Count(ItemsOf(u_out), Request(i)) = Count(ItemsOf(o_out), Request(i))

\* C4: with a fetch that chains its requests as derive_next does, no limit
\* and a window >= 1, a successful run of the ordered scheduler emits the
\* sequence of pages the sequential driver emits.
C4_OrderedEqualsSequential ==
    (/\ ChainMatches
     /\ limit = None
     /\ requests_ahead_count >= 1
     /\ o_stream = "ended"
     /\ ~HasErr(o_out))
        => ItemsOf(o_out) = ItemsOf(p_out)

\* Both streams ended after at least two pages, fetched two at a time or more.
C4_Witness ==
    /\ ChainMatches
    /\ limit = None
    /\ requests_ahead_count >= 2
    /\ o_stream = "ended"
    /\ ~HasErr(o_out)
    /\ Len(ItemsOf(o_out)) >= 2
    /\ ItemsOf(o_out) = ItemsOf(p_out)

\* C5: in-flight fetches never outnumber requests_ahead_count, in either
\* look-ahead scheduler.
C5_InFlightWithinWindow ==
    /\ Len(o_in_progress) <= requests_ahead_count
    /\ Cardinality(u_in_progress) <= requests_ahead_count

\* The window is full again after a sliding-window refill.
C5_Witness ==
    /\ requests_ahead_count >= 2
    /\ u_out # << >>
    /\ u_pc = "schedule"
    /\ Cardinality(u_in_progress) = requests_ahead_count

\* An error in `out` is its last event, or is followed by one stream-end
\* that closes it.
ErrorIsTerminal(out) ==
    \A i \in ErrPositions(out) :
        \/ i = Len(out)
        \/ i = Len(out) - 1 /\ out[Len(out)] = EndEvent

\* C6: each of the three streams surfaces at most one error, as its last
\* event before stream-end; the pull after the error yields stream-end; and
\* once an error was yielded no further fetch is issued.
C6_PoisonedAfterError ==
    /\ [](ErrorIsTerminal(p_out) /\ ErrorIsTerminal(o_out) /\ ErrorIsTerminal(u_out))
    /\ [][/\ HasErr(p_out) => (p_calls' = p_calls /\ p_in_flight' = p_in_flight)
          /\ HasErr(o_out) => (o_requests' = o_requests /\ o_in_progress' = o_in_progress)
          /\ HasErr(u_out) => (/\ u_numbered_requests' = u_numbered_requests
                               /\ u_in_progress' = u_in_progress)
          /\ (HasErr(p_out) /\ p_out' # p_out) => p_out' = Append(p_out, EndEvent)
          /\ (HasErr(o_out) /\ o_out' # o_out) => o_out' = Append(o_out, EndEvent)
          /\ (HasErr(u_out) /\ u_out' # u_out) => u_out' = Append(u_out, EndEvent)]_vars

\* All three streams failed and were pulled once more.
C6_Witness ==
    /\ turn = "finished"
    /\ HasErr(p_out) /\ HasErr(o_out) /\ HasErr(u_out)
    /\ Len(o_out) >= 3
    /\ Len(u_out) >= 3

\* The scheduled requests of the unordered scheduler that fail.
UnorderedFailed == { n \in UnorderedScheduled : Fails(n) }

\* C7: an error the unordered stream surfaces is the error of the
\* lowest-indexed scheduled request that failed.
C7_LowestIndexedErrorWins ==
    \A i \in ErrPositions(u_out) :
        /\ u_out[i][2] \in UnorderedFailed
        /\ \A n \in UnorderedFailed : u_out[i][2] <= n
        /\ u_out[i][3] = Request(u_out[i][2])

\* An error was surfaced out of several failed requests.
C7_Witness ==
    /\ HasErr(u_out)
    /\ Cardinality(UnorderedFailed) >= 2

\* C8: the unordered stream surfaces an error only with in_progress empty,
\* after the page of every scheduled request that succeeded.
C8_ErrorAfterAllScheduledPages ==
    HasErr(u_out) =>
        /\ u_in_progress = {}
        /\ \A n \in UnorderedScheduled : ~Fails(n) => n \in PageNums(u_out)

\* The page of a request behind the failed one came out before the error.
C8_Witness ==
    /\ HasErr(u_out)
    /\ \E i \in ErrPositions(u_out) : \E n \in PageNums(u_out) : n > u_out[i][2]

\* Scenario D cut to the model's size: one page per request, the request
\* with index 1 fails, the last known request is the last page.
ScenarioD ==
    /\ limit = None
    /\ \A i \in 0 .. (MaxPages - 1) :
          backend[Request(i)] = IF i = 1 THEN "err"
                                ELSE IF i = MaxPages - 1 THEN "last"
                                ELSE "next"

\* C9 as stated: in scenario D the unordered stream emits item 0 and then
\* the error of index 1, no page of a higher-indexed request in between.
C9_OnlyItemZeroBeforeError ==
    (ScenarioD /\ requests_ahead_count = MaxWindow /\ HasErr(u_out))
        => ItemsOf(u_out) = << Request(0) >>

\* C9, amended: in scenario D, with a window >= 1, the unordered stream ends
\* with the error of index 1 and never cleanly, and before that error it has
\* emitted item 0 and the page of every other scheduled request that
\* succeeded, the higher-indexed ones included.
C9_ScenarioDErrorAfterScheduledPages ==
    (ScenarioD /\ requests_ahead_count >= 1) =>
        /\ u_stream = "ended" => HasErr(u_out)
        /\ \A i \in ErrPositions(u_out) :
              /\ u_out[i][2] = 1
              /\ 0 \in PageNums(u_out)
              /\ PageNums(u_out) = UnorderedScheduled \ UnorderedFailed
              /\ \A j \in 1 .. Len(u_out) : u_out[j][1] = "page" => j < i

\* Scenario D ended with the error of index 1 after a higher-indexed page.
C9_Witness ==
    /\ ScenarioD
    /\ requests_ahead_count = MaxWindow
    /\ u_stream = "ended"
    /\ HasErr(u_out)
    /\ \E n \in PageNums(u_out) : n > 1

\* What the ordered stream yields when request k is the first to fail.
OrderedUntilError(k) ==
    [i \in 1 .. k |-> PageEvent(i - 1, Request(i - 1))]
        \o << ErrEvent(k, Request(k)), EndEvent >>

\* Request LowestFailing is reached: no page before it is the last one and
\* the limit does not cut the sequence before it.
FirstErrorReached ==
    /\ requests_ahead_count >= 1
    /\ \A j \in 0 .. (LowestFailing - 1) : ~IsLastPage(j)
    /\ limit = None \/ Unwrap(limit) > LowestFailing

\* C10: when request k is the lowest-indexed failing request and is reached,
\* the ordered stream yields pages 0..k-1 in order, the error of k, then
\* stream-end, and nothing else.
C10_OrderedStopsAtFirstError ==
    FirstErrorReached =>
        /\ IsPrefix(o_out, OrderedUntilError(LowestFailing))
        /\ o_stream = "ended" => o_out = OrderedUntilError(LowestFailing)

\* The ordered stream ended on the error of the third request.
C10_Witness ==
    /\ FirstErrorReached
    /\ requests_ahead_count >= 2
    /\ LowestFailing >= 2
    /\ o_stream = "ended"
    /\ o_out = OrderedUntilError(LowestFailing)

\* ------------------------------------------------------------------------
\* C11..C20
\* ------------------------------------------------------------------------
\* A failed fetch whose output FuturesOrdered holds back behind the head.
HeldBackFailure(num) == num \in o_ready /\ Fails(num)

\* C11 as stated: the step during which a fetch of the ordered queue fails
\* returns that failure, so whenever a step has returned while a failed
\* output sits in the queue, the stream has surfaced the error.
C11_FailurePropagatedByFailingStep ==
    (turn = "pages_ahead" /\ o_pc = "idle" /\ \E num \in o_ready : HeldBackFailure(num))
        => HasErr(o_out)

\* C11, amended: the ordered stream surfaces a failure only in the step whose
\* try_next() finds the failed fetch at the head of the queue, as the error
\* of that head; once the error is surfaced no request is pulled or scheduled.
C11_FailurePropagatedAtHead ==
    [][ /\ (HasErr(o_out') /\ ~HasErr(o_out)) =>
              /\ o_pc = "await"
              /\ Fails(Head(o_in_progress).num)
              /\ o_out' = Append(o_out, ErrEvent(Head(o_in_progress).num,
                                                 Head(o_in_progress).req))
        /\ HasErr(o_out) => (o_requests' = o_requests /\ o_in_progress' = o_in_progress)
      ]_vars

\* A failure that was held back while two pages were emitted and a request
\* was scheduled after it, and that the stream surfaced in the end.
C11_Witness ==
    /\ requests_ahead_count = 3
    /\ limit = None
    /\ Fails(2) /\ ~Fails(0) /\ ~Fails(1) /\ ~IsLastPage(0) /\ ~IsLastPage(1)
    /\ o_out = << PageEvent(0, Request(0)), PageEvent(1, Request(1)),
                  ErrEvent(2, Request(2)) >>
    /\ o_requests.count >= 4

\* The unordered scheduler knows the last page and a scheduled request at or
\* before it fails.
ErrorAtOrBeforeLastPage ==
    /\ IsSome(u_last_page)
    /\ \E n \in UnorderedScheduled : Fails(n) /\ n <= Unwrap(u_last_page)

\* C12: once the unordered scheduler knows the last page L and a scheduled
\* request with index <= L fails, the stream never ends without surfacing an
\* error, surfaces it with in_progress drained, and until it has surfaced it
\* a step of the stream can always be taken (steps are finitely many, so the
\* stream does terminate with the error).
C12_ErrorBeforeLastPageNotSwallowed ==
    ErrorAtOrBeforeLastPage =>
        /\ (EndEvent \in { u_out[i] : i \in DOMAIN u_out }) => HasErr(u_out)
        /\ HasErr(u_out) => u_in_progress = {}
        /\ ~HasErr(u_out) =>
              ENABLED (UnorderedPoll \/ \E f \in u_in_progress : UnorderedResume(f))

\* The error of request 1 was retained before the last page, request 2, was
\* known, and the stream ended with it.
C12_Witness ==
    /\ ErrorAtOrBeforeLastPage
    /\ requests_ahead_count >= 2
    /\ u_last_page = Some(2)
    /\ Fails(1)
    /\ u_stream = "ended"
    /\ u_out = << PageEvent(0, Request(0)), PageEvent(2, Request(2)),
                  ErrEvent(1, Request(1)), EndEvent >>

\* The futures of the ordered queue, as a set.
OrderedInProgress(in_progress) == { in_progress[i] : i \in DOMAIN in_progress }

\* C13: once last_page_queried is true (ordered) or last_page is Some
\* (unordered), no step pulls a request from the request sequence or adds a
\* fetch to in_progress.
C13_NoSchedulingAfterTermination ==
    [][ /\ o_last_page_queried =>
              /\ o_requests' = o_requests
              /\ OrderedInProgress(o_in_progress') \subseteq OrderedInProgress(o_in_progress)
        /\ IsSome(u_last_page) =>
              /\ u_numbered_requests' = u_numbered_requests
              /\ u_in_progress' \subseteq u_in_progress
      ]_vars

\* Both flags were set with fetches in flight and requests left to pull; the
\* unordered scheduler is draining.
C13_Witness ==
    /\ o_last_page_queried
    /\ o_in_progress # << >>
    /\ ~LimitReached(o_requests)
    /\ IsSome(u_last_page)
    /\ u_pc = "drain"
    /\ u_in_progress # {}
    /\ ~LimitReached(u_numbered_requests)

\* The backend has at least n pages and none of the first n requests fails.
HasPages(n) ==
    /\ \A i \in 0 .. (n - 1) : ~Fails(i)
    /\ \A i \in 0 .. (n - 2) : ~IsLastPage(i)

\* C14: under Limit::Pages(n) no request with index >= n is pulled, in
\* flight or answered in either look-ahead stream; with a window >= 1, a
\* backend of at least n pages and no failure among the first n requests,
\* the ordered stream ends as pages 0..n-1 in order and the unordered stream
\* as exactly the pages 0..n-1, each followed by the stream-end only.
C14_LimitBoundsScheduling ==
    \A n \in 0 .. MaxLimit : limit = Some(n) =>
        /\ o_requests.count <= n
        /\ u_numbered_requests.count <= n
        /\ \A i \in DOMAIN o_in_progress : o_in_progress[i].num < n
        /\ \A f \in u_in_progress : f.num < n
        /\ \A i \in DOMAIN o_out : o_out[i] # EndEvent => o_out[i][2] < n
        /\ \A i \in DOMAIN u_out : u_out[i] # EndEvent => u_out[i][2] < n
        /\ (requests_ahead_count >= 1 /\ HasPages(n)) =>
              /\ o_stream = "ended" =>
                    o_out = [i \in 1 .. n |-> PageEvent(i - 1, Request(i - 1))]
                                \o << EndEvent >>
              /\ u_stream = "ended" =>
                    /\ PageNums(u_out) = 0 .. (n - 1)
                    /\ Len(u_out) = n + 1
                    /\ u_out[n + 1] = EndEvent
                    /\ \A i \in 1 .. n : u_out[i] = PageEvent(u_out[i][2], Request(u_out[i][2]))

\* Limit::Pages(2) stopped both streams after two pages although the backend
\* has a third page and the window had room for it.
C14_Witness ==
    /\ limit = Some(2)
    /\ requests_ahead_count = 3
    /\ HasPages(3)
    /\ turn = "finished"
    /\ Len(PagesOf(o_out)) = 2
    /\ Len(PagesOf(u_out)) = 2
    /\ u_out[1] = PageEvent(1, Request(1))

\* C15: every step of either look-ahead scheduler hands to the fetch exactly
\* the requests the request sequence yields during the step, which are the
\* requests of the next indices count, count + 1, ... in order; so the
\* indices scheduled so far are always 0..count-1, each scheduled once, and
\* no index sits twice in in_progress or is answered twice.
C15_ScheduledIndicesArePrefix ==
    [][ LET newO == OrderedInProgress(o_in_progress') \ OrderedInProgress(o_in_progress)
            newU == u_in_progress' \ u_in_progress
        IN /\ o_requests'.count >= o_requests.count
           /\ { f.num : f \in newO } = o_requests.count .. (o_requests'.count - 1)
           /\ \A f \in newO : f.req = Request(f.num)
           /\ \A i, j \in DOMAIN o_in_progress' :
                 i < j => o_in_progress'[i].num < o_in_progress'[j].num
           /\ Len(PagesOf(o_out')) = Cardinality(PageNums(o_out'))
           /\ u_numbered_requests'.count >= u_numbered_requests.count
           /\ { f.num : f \in newU } =
                 u_numbered_requests.count .. (u_numbered_requests'.count - 1)
           /\ \A f \in newU : f.req = Request(f.num)
           /\ \A f, g \in u_in_progress' : f.num = g.num => f = g
           /\ Len(PagesOf(u_out')) = Cardinality(PageNums(u_out'))
           /\ PageNums(u_out') \cap { f.num : f \in u_in_progress' } = {}
      ]_vars

\* Both schedulers refilled a window of 2 twice: four requests scheduled.
C15_Witness ==
    /\ requests_ahead_count = 2
    /\ limit = None
    /\ o_requests.count = 4
    /\ u_numbered_requests.count = 4
    /\ u_pc = "schedule"
    /\ { f.num : f \in u_in_progress } = {2, 3}

\* Neither look-ahead stream has issued a fetch, and each has yielded nothing
\* but the stream-end, on the one pull the caller made of it.
EndsOnFirstPull ==
    /\ o_in_progress = << >> /\ o_pc = "idle"
    /\ u_in_progress = {} /\ u_pc = "idle"
    /\ o_out = IF turn \in {"pages_ahead_unordered", "finished"}
               THEN << EndEvent >> ELSE << >>
    /\ u_out = IF turn = "finished" THEN << EndEvent >> ELSE << >>

\* C16: with Limit::Pages(0), whatever the window, the first pull of the
\* ordered and of the unordered stream yields the stream-end; no page and no
\* error is emitted and no fetch is issued.
C16_LimitZeroEndsAtOnce ==
    limit = Some(0) =>
        /\ EndsOnFirstPull
        /\ o_requests.count = 0
        /\ u_numbered_requests.count = 0

\* Both streams were pulled with Limit::Pages(0) and a window of 3 over a
\* backend whose first page exists.
C16_Witness ==
    /\ limit = Some(0)
    /\ requests_ahead_count = 3
    /\ ~Fails(0)
    /\ turn = "finished"
    /\ o_out = << EndEvent >>
    /\ u_out = << EndEvent >>

\* C17: with requests_ahead_count = 0, whatever the limit and the backend,
\* the first pull of the ordered and of the unordered stream yields the
\* stream-end; nothing is emitted, no fetch is issued and the request
\* sequence is left as it was constructed.
C17_WindowZeroEndsAtOnce ==
    requests_ahead_count = 0 =>
        /\ EndsOnFirstPull
        /\ o_requests = RequestIter_new(FirstPage, limit)
        /\ u_numbered_requests = RequestIter_new(FirstPage, limit)

\* Both streams were pulled with a window of 0, no limit and a backend whose
\* first page exists.
C17_Witness ==
    /\ requests_ahead_count = 0
    /\ limit = None
    /\ ~Fails(0)
    /\ turn = "finished"
    /\ o_stream = "ended"
    /\ u_stream = "ended"
    /\ u_numbered_requests.counter = 0

\* The element with index i of the enumerated request sequence.
Item(i) == [num |-> i, req |-> Request(i)]

\* C18: the i-th call of RequestIter::next (1-based, by whichever of
\* next_chunk, Chunk::next or next_item) yields the request derive_next
\* gives when applied i-1 times to the initial request, and yields None
\* exactly when the limit is Limit::Pages(n) and i > n.
C18_RequestIterYieldsLimitedChain ==
    \A i \in DOMAIN c_returned :
        IF IsSome(limit) /\ i > Unwrap(limit)
        THEN c_returned[i] = None
        ELSE c_returned[i] = Some(Item(i - 1))

\* Under Limit::Pages(2) the iterator was called four times.
C18_Witness ==
    /\ limit = Some(2)
    /\ c_returned = << Some(Item(0)), Some(Item(1)), None, None >>

RECURSIVE Flatten(_)
Flatten(seqs) == IF seqs = << >> THEN << >> ELSE Head(seqs) \o Flatten(Tail(seqs))

\* C19: with chunk size k >= 1 over Limit::Pages(m), calling only next_chunk
\* and consuming every chunk until it yields None, the chunks concatenate to
\* the sequence's elements in order, every chunk but the newest has size k
\* and none is empty once consumed; when next_chunk has returned None the
\* chunks are ceil(m/k), they hold all m elements, and the last one has size
\* m mod k when that is not 0.
C19_ChunksPartitionSequence ==
    \A m \in 0 .. MaxLimit :
        (/\ limit = Some(m)
         /\ requests_ahead_count >= 1
         /\ c_next_items = << >>
         /\ ~c_partial) =>
        LET k == requests_ahead_count
            all == Flatten(c_chunks)
            n == Len(c_chunks)
        IN /\ all = [i \in 1 .. Len(all) |-> Item(i - 1)]
           /\ \A i \in 1 .. (n - 1) : Len(c_chunks[i]) = k
           /\ \A i \in 1 .. n : Len(c_chunks[i]) <= k
           /\ c_chunk = None => \A i \in 1 .. n : Len(c_chunks[i]) >= 1
           /\ c_no_chunk >= 1 =>
                 /\ Len(all) = m
                 /\ n = (m + k - 1) \div k
                 /\ (m % k # 0) => Len(c_chunks[n]) = m % k

\* Three elements in chunks of 2: a full chunk, a chunk of 1, then None.
C19_Witness ==
    /\ limit = Some(3)
    /\ requests_ahead_count = 2
    /\ ~c_partial
    /\ c_next_items = << >>
    /\ c_chunks = << << Item(0), Item(1) >>, << Item(2) >> >>
    /\ c_no_chunk = 1

\* C20: with chunk size 0 no call of next_chunk returns a chunk, whatever
\* the limit, and next_chunk pulls nothing: the iterator was called only by
\* next_item.
C20_ChunkSizeZeroYieldsNoChunk ==
    requests_ahead_count = 0 =>
        /\ c_chunk = None
        /\ c_chunks = << >>
        /\ c_returned = c_next_items
        /\ (c_next_items = << >>) => c_iter = RequestIter_new(FirstPage, limit)

\* next_chunk was called twice on an unlimited sequence with chunk size 0.
C20_Witness ==
    /\ requests_ahead_count = 0
    /\ limit = None
    /\ c_no_chunk = 2
    /\ c_iter = RequestIter_new(FirstPage, limit)

\* ------------------------------------------------------------------------
\* C21..C30
\* ------------------------------------------------------------------------
\* C21: in the sequential stream the first fetch is of the initial request
\* and every later one of the next request the previous response returned;
\* the fetches issued are the pages and errors yielded plus the one in
\* flight, so at most one is in flight and, with none in flight, the calls
\* are the pages plus one for an error; a page whose response has no next
\* request is followed by the stream-end only, with no fetch after it.
C21_SequentialFollowsResponses ==
    /\ p_calls # << >> => p_calls[1] = FirstPage
    /\ \A i \in 1 .. (Len(p_calls) - 1) :
          LET r == turn_page(backend, p_calls[i]) IN
          r.ok /\ r.next_request = Some(p_calls[i + 1])
    /\ Cardinality(ErrPositions(p_out)) <= 1
    /\ Len(p_calls) = Len(PagesOf(p_out)) + Cardinality(ErrPositions(p_out))
                          + (IF IsSome(p_in_flight) THEN 1 ELSE 0)
    /\ \A i \in DOMAIN p_out :
          (p_out[i][1] = "page" /\ turn_page(backend, p_out[i][3]).next_request = None) =>
              /\ Len(p_calls) = i
              /\ p_in_flight = None
              /\ SubSeq(p_out, i + 1, Len(p_out)) \in {<< >>, << EndEvent >>}

\* The first response names the third page as next; the stream fetched
\* pages 1 and 3 and ended after the last page.
C21_Witness ==
    /\ backend[1] = "skip"
    /\ backend[3] = "last"
    /\ p_calls = << 1, 3 >>
    /\ p_out = << PageEvent(0, 1), PageEvent(1, 3), EndEvent >>

\* C22: a page of the ordered stream whose response has no next request is
\* followed by the stream-end only, and the stream surfaces no page and no
\* error of a request with an index above that of a last page, whatever is
\* in flight or has completed behind it.
C22_OrderedStopsAtLastPage ==
    /\ \A i \in DOMAIN o_out :
          (o_out[i][1] = "page" /\ IsLastPage(o_out[i][2])) =>
              SubSeq(o_out, i + 1, Len(o_out)) \in {<< >>, << EndEvent >>}
    /\ \A i \in DOMAIN o_out : \A L \in 0 .. (MaxPages - 1) :
          (o_out[i] # EndEvent /\ IsLastPage(L)) => o_out[i][2] <= L

\* Page 0 was the last one; the stream ended with the completed page of
\* request 1 held back and the failing request 2 still in the queue.
C22_Witness ==
    /\ IsLastPage(0)
    /\ o_out = << PageEvent(0, Request(0)), EndEvent >>
    /\ Len(o_in_progress) = 2
    /\ 1 \in o_ready /\ ~Fails(1)
    /\ 2 \notin o_ready /\ Fails(2)

\* The backend that agrees with b on every request's success, items and on
\* whether a next request is present, and always returns derive_next's
\* request as the next one.
Shape(b) == [req \in DOMAIN b |-> IF b[req] = "skip" THEN "next" ELSE b[req]]

\* PagesAheadResume, had the fetches been answered by backend b.
PagesAheadResumeOn(b) ==
    /\ turn = "pages_ahead"
    /\ o_pc = "await"
    /\ LET f == ordered_next_output(o_in_progress, o_ready)
           r == turn_page(b, f.req)
           ret == ordered_return(f, r)
       IN /\ f.num = Head(o_in_progress).num \/ f.num \in o_ready
          /\ o_in_progress' = IF r.ok
                              THEN SelectSeq(o_in_progress, LAMBDA g : g.num # f.num)
                              ELSE << >>
          /\ o_ready' = IF r.ok THEN o_ready \ {f.num} ELSE {}
          /\ o_last_page_queried' = IF r.ok THEN last_page_queried_after(r)
                                    ELSE o_last_page_queried
          /\ o_out' = Append(o_out, ret)
          /\ o_stream' = try_unfold_state(ret)
          /\ o_pc' = "idle"
    /\ UNCHANGED << wVars, cVars, cfgVars, turn, pVars, uVars, o_requests >>

\* UnorderedResume(f), had the fetches been answered by backend b.
UnorderedResumeOn(b, f) ==
    /\ turn = "pages_ahead_unordered"
    /\ u_pc \in {"drain", "errors", "schedule"}
    /\ f \in u_in_progress
    /\ u_taken' = u_taken + 1
    /\ LET r == turn_page(b, f.req) IN
       /\ u_in_progress' = u_in_progress \ {f}
       /\ IF r.ok
          THEN /\ u_last_page' = IF u_pc # "drain" /\ r.next_request = None
                                 THEN Some(f.num)
                                 ELSE u_last_page
               /\ UnorderedReturn(PageEvent(f.num, r.items))
               /\ UNCHANGED u_first_error
          ELSE LET err == update_err(u_first_error, f.num, r.items)
                   at == unordered_await(u_last_page, err, u_in_progress')
               IN /\ UNCHANGED u_last_page
                  /\ IF at = "return"
                     THEN /\ UnorderedReturn(unordered_empty_return(u_last_page, err))
                          /\ u_first_error' = IF IsSome(u_last_page) THEN None ELSE err
                     ELSE /\ u_first_error' = err
                          /\ u_pc' = at
                          /\ UNCHANGED << u_out, u_stream, turn >>
    /\ UNCHANGED << wVars, cVars, cfgVars, pVars, oVars, u_numbered_requests >>

\* C23: every step in which a look-ahead scheduler consumes a response is the
\* step it takes, from the same state and on the same completion, when the
\* backend is replaced by the one of the same shape that returns
\* derive_next's requests; the other steps (scheduling, completions held
\* back) do not read the backend. So two backends of the same shape give the
\* same scheduled requests and outputs under the same completion order.
C23_NextRequestValueUnused ==
    [][ /\ PagesAheadResume => PagesAheadResumeOn(Shape(backend))
        /\ \A f \in u_in_progress :
              UnorderedResume(f) => UnorderedResumeOn(Shape(backend), f)
      ]_vars

\* The first response names the third page as its next request: the
\* sequential stream follows it, the look-ahead streams fetch pages 1, 2, 3.
C23_Witness ==
    /\ backend = << "skip", "next", "last" >>
    /\ requests_ahead_count = 2
    /\ limit = None
    /\ turn = "finished"
    /\ ItemsOf(p_out) = << 1, 3 >>
    /\ ItemsOf(o_out) = << 1, 2, 3 >>
    /\ ItemsOf(u_out) = << 2, 1, 3 >>

\* C24 as stated: over a backend whose requests up to the last page
\* succeed and whose later requests fail, once the chunk-wise unordered
\* stream has emitted the last page, so that the end was detected within the
\* chunk, it surfaces no error, whatever the completion order inside the
\* chunk.
C24_ErrorsDiscardedAfterLastPage ==
    \A L \in 0 .. (MaxPages - 1) :
        (/\ PastEndBackend(L)
         /\ \E i \in DOMAIN w_out : w_out[i] = PageEvent(L, Request(L)))
        => ~HasErr(w_out)

\* min(n, x) for the limit: n is infinite for Limit::None.
MinWithLimit(x) == IF IsSome(limit) /\ Unwrap(limit) < x THEN Unwrap(limit) ELSE x

\* C25: with a window w >= 1, whenever the ordered scheduler awaits, and
\* whenever the unordered scheduler awaits after scheduling (no error
\* retained, last page unknown), the requests scheduled so far are
\* min(n, e + w), e being the pages emitted so far and n the limit.
C25_WindowKeptFull ==
    requests_ahead_count >= 1 =>
        /\ o_pc = "await" =>
              o_requests.count = MinWithLimit(Len(PagesOf(o_out)) + requests_ahead_count)
        /\ u_pc = "schedule" =>
              /\ u_first_error = None /\ u_last_page = None
              /\ u_numbered_requests.count =
                    MinWithLimit(Len(PagesOf(u_out)) + requests_ahead_count)

\* A window of 2 refilled twice by the unordered scheduler, two pages
\* emitted and four requests scheduled, as by the ordered one before.
C25_Witness ==
    /\ requests_ahead_count = 2
    /\ limit = None
    /\ u_pc = "schedule"
    /\ Len(PagesOf(u_out)) = 2
    /\ u_numbered_requests.count = 4
    /\ Len(PagesOf(o_out)) = 3
    /\ o_requests.count = 4

\* C26: while the unordered scheduler retains an error, no step moves the
\* request cursor or adds a fetch to in_progress, steps only take fetches out
\* of in_progress, and the error stays retained until the stream terminates.
C26_NoSchedulingUnderRetainedError ==
    [][ IsSome(u_first_error) =>
          /\ u_numbered_requests' = u_numbered_requests
          /\ u_in_progress' \subseteq u_in_progress
          /\ IsSome(u_first_error') \/ u_stream' # "live"
      ]_vars

\* An error is retained with fetches in flight, requests left to pull and
\* a page emitted; the scheduler waits in the loop over first_error.
C26_Witness ==
    /\ IsSome(u_first_error)
    /\ u_last_page = None
    /\ u_pc = "errors"
    /\ Cardinality(u_in_progress) = 2
    /\ ~LimitReached(u_numbered_requests)
    /\ Len(PagesOf(u_out)) >= 1

\* C27: when the ordered step reaches try_next().await, and when the
\* unordered step reaches its final in_progress.next().await, in_progress is
\* not empty, and neither stream runs into its unreachable!() branch.
C27_FinalAwaitHasFetchInFlight ==
    /\ o_pc = "await" => o_in_progress # << >>
    /\ u_pc = "schedule" => u_in_progress # {}
    /\ \A i \in DOMAIN o_out : o_out[i] # << "panic" >>
    /\ \A i \in DOMAIN u_out : u_out[i] # << "panic" >>

\* With a window of 1 in_progress is empty at every step: the unordered
\* scheduler took a second chunk, of one request, and awaits it.
C27_Witness ==
    /\ requests_ahead_count = 1
    /\ u_pc = "schedule"
    /\ Len(PagesOf(u_out)) = 1
    /\ u_in_progress = { [num |-> 1, req |-> Request(1)] }
    /\ Len(PagesOf(o_out)) >= 2

\* C28 as stated: with a chunk size >= 1 every request the chunk-wise
\* scheduler's chunker pulled from the sequence was yielded by its chunk and
\* handed to the fetch, in sequence order.
C28_NoPulledRequestDropped ==
    requests_ahead_count >= 1 =>
        w_calls = [i \in 1 .. w_req_chunks.count |-> Request(i - 1)]

\* The elements the iterator has yielded so far.
Pulled == SelectSeq(c_returned, LAMBDA o : IsSome(o))

\* C29: when every chunk is consumed until it yields None, whatever the
\* interleaving of next_chunk and next_item calls, the elements handed to
\* the caller are the elements of the sequence in order, each once, and
\* nothing pulled from the sequence is lost (all of it is delivered but the
\* seed an open chunk still holds); no chunk yields more than chunk_size
\* elements; under Limit::Pages(m), once the sequence is exhausted and no
\* chunk is open, all m elements have been delivered.
C29_ChunksDeliverSequenceInOrder ==
    ~c_partial =>
        /\ c_delivered = [i \in 1 .. Len(c_delivered) |-> Item(i - 1)]
        /\ Len(c_delivered) =
              Len(Pulled) - (IF IsSome(c_chunk) /\ IsSome(Unwrap(c_chunk).first)
                             THEN 1 ELSE 0)
        /\ Len(c_delivered) =
              Len(Flatten(c_chunks))
                + Cardinality({ i \in DOMAIN c_next_items : IsSome(c_next_items[i]) })
        /\ \A i \in DOMAIN c_chunks : Len(c_chunks[i]) <= requests_ahead_count
        /\ \A m \in 0 .. MaxLimit :
              (/\ limit = Some(m)
               /\ c_chunk = None
               /\ \E i \in DOMAIN c_returned : c_returned[i] = None)
              => Len(c_delivered) = m

\* Three elements: one by next_item, a chunk of one, one by next_item, then
\* next_chunk returns None.
C29_Witness ==
    /\ limit = Some(3)
    /\ requests_ahead_count = 1
    /\ ~c_partial
    /\ c_next_items = << Some(Item(0)), Some(Item(2)) >>
    /\ c_chunks = << << Item(1) >> >>
    /\ c_delivered = << Item(0), Item(1), Item(2) >>
    /\ c_no_chunk = 1

\* C30 as stated: when the fetches of the unordered stream complete in the
\* order in which they were scheduled, its pages are emitted in
\* request-index order and, in runs in which neither look-ahead stream
\* surfaces an error, it emits the sequence the ordered stream emits.
C30_InOrderUnorderedEqualsOrdered ==
    /\ \A i, j \in DOMAIN PagesOf(u_out) :
          i < j => PagesOf(u_out)[i][2] < PagesOf(u_out)[j][2]
    /\ (turn = "finished" /\ ~HasErr(o_out) /\ ~HasErr(u_out)) => u_out = o_out

\* ------------------------------------------------------------------------
\* C31..C36
\* ------------------------------------------------------------------------
\* C31 as stated: a step of the unordered stream taken with last_page =
\* Some(L) emits no page of a request with an index above L.
C31_DrainedPagesAtOrBeforeLastPage ==
    [][ (IsSome(u_last_page) /\ Len(u_out') = Len(u_out) + 1
           /\ u_out'[Len(u_out')][1] = "page")
          => u_out'[Len(u_out')][2] <= Unwrap(u_last_page)
      ]_vars

\* The unordered step returns, with last_page known, something that is not a
\* page: in_progress drained to empty without a successful completion.
UnorderedDrainedEmpty ==
    /\ turn = "pages_ahead_unordered"
    /\ u_stream = "live"
    /\ IsSome(u_last_page)
    /\ Len(u_out') = Len(u_out) + 1
    /\ u_out'[Len(u_out')][1] # "page"

\* The failed requests the unordered scheduler has scheduled at or before
\* index L.
FailedAtOrBefore(L) == { n \in UnorderedScheduled : Fails(n) /\ n <= L }

\* C32 as stated: a step that, with last_page known, takes the last
\* completions out of in_progress and finds no successful one among them
\* returns an error.
C32_EmptyDrainPropagatesError ==
    [][ (UnorderedDrainedEmpty /\ u_pc = "drain")
          => u_out'[Len(u_out')][1] = "err" ]_vars

\* C32: a step that, with last_page = Some(L), drains in_progress to empty
\* without a successful completion returns the error of the lowest failed
\* scheduled request when that index is at or before L, and the end of the
\* stream otherwise (no failure, or failures past L only).
C32_EmptyDrainOutcome ==
    [][ UnorderedDrainedEmpty =>
          LET F == FailedAtOrBefore(Unwrap(u_last_page))
              k == CHOOSE n \in F : \A m \in F : n <= m
          IN u_out'[Len(u_out')] = IF F # {}
                                   THEN ErrEvent(k, Request(k))
                                   ELSE EndEvent
      ]_vars

\* The stream has ended without an error after the last page L, though a
\* scheduled request past L failed and was the last one to complete.
C32_Witness ==
    /\ u_stream = "ended"
    /\ IsSome(u_last_page)
    /\ u_out # << >>
    /\ u_out[Len(u_out)] = EndEvent
    /\ u_in_progress = {}
    /\ ~IsSome(u_first_error)
    /\ \E n \in UnorderedScheduled : Fails(n) /\ n > Unwrap(u_last_page)
    /\ \A n \in UnorderedScheduled : Fails(n) => n > Unwrap(u_last_page)

\* Requests 0..L succeed and L is the lowest index answered without a next
\* request; nothing is said of the requests past L.
LowestLastPage(L) ==
    /\ \A i \in 0 .. (L - 1) : Answer(i).ok /\ IsSome(Answer(i).next_request)
    /\ IsLastPage(L)

\* Every request of the backend past index L fails.
FailsPast(L) == \A i \in (L + 1) .. (MaxPages - 1) : Fails(i)

\* C33 as stated: with L the lowest index answered without a next request,
\* neither look-ahead scheduler schedules an index above L + w - 1.
C33_BoundedOverFetch ==
    \A L \in 0 .. (MaxPages - 1) :
        LowestLastPage(L) =>
            /\ o_requests.count <= L + requests_ahead_count
            /\ u_numbered_requests.count <= L + requests_ahead_count

\* C33: with L the lowest index answered without a next request, the ordered
\* scheduler schedules no index above L + w - 1, and neither does the
\* unordered scheduler when every request past L fails; on every backend the
\* unordered scheduler has scheduled at most w requests more than the pages
\* it has emitted.
C33_BoundedOverFetchAmended ==
    /\ u_numbered_requests.count
          <= Len(PagesOf(u_out)) + requests_ahead_count
    /\ \A L \in 0 .. (MaxPages - 1) :
          LowestLastPage(L) =>
              /\ o_requests.count <= L + requests_ahead_count
              /\ FailsPast(L) =>
                    u_numbered_requests.count <= L + requests_ahead_count

\* Both schedulers have finished on a backend whose last page L is followed
\* by failing requests only, each having scheduled L + w requests, w >= 2.
C33_Witness ==
    /\ turn = "finished"
    /\ requests_ahead_count >= 2
    /\ \E L \in 1 .. (MaxPages - 1) :
          /\ LowestLastPage(L) /\ FailsPast(L)
          /\ o_requests.count = L + requests_ahead_count
          /\ u_numbered_requests.count = L + requests_ahead_count

\* C34: once last_page is Some it keeps its value in every later step; the
\* index of the retained error never increases from one state to the next,
\* and first_error is emptied only by the step that ends the stream.
C34_StateMonotone ==
    [][ /\ IsSome(u_last_page) => u_last_page' = u_last_page
        /\ (IsSome(u_first_error) /\ IsSome(u_first_error'))
              => Unwrap(u_first_error').num <= Unwrap(u_first_error).num
        /\ (IsSome(u_first_error) /\ ~IsSome(u_first_error'))
              => (u_stream = "live" /\ u_stream' # "live")
      ]_vars

\* The stream is live with last_page = Some(L), has emitted after the page
\* of L the page of another request that has no next request either, and
\* still retains the error of a request that failed before L completed.
C34_Witness ==
    /\ u_stream = "live"
    /\ IsSome(u_last_page)
    /\ IsSome(u_first_error)
    /\ \E i, j \in 1 .. Len(u_out) :
          /\ i < j
          /\ u_out[i] = PageEvent(Unwrap(u_last_page), Request(Unwrap(u_last_page)))
          /\ u_out[j][1] = "page"
          /\ u_out[j][2] # Unwrap(u_last_page)
          /\ IsLastPage(u_out[j][2])

\* C35: with requests_ahead_count = 1 the unordered stream emits, event by
\* event, what the ordered stream emitted (pages with their indices, then
\* the end of the stream or the same error), and once both have finished
\* they have scheduled the same requests.
C35_WindowOneEquivalent ==
    requests_ahead_count = 1 =>
        /\ turn \in {"pages_ahead_unordered", "finished"} => IsPrefix(u_out, o_out)
        /\ turn = "finished" =>
              /\ u_out = o_out
              /\ u_numbered_requests.count = o_requests.count

\* Both look-ahead streams have finished with window size 1 on a backend
\* whose first request succeeds and a later one fails: both emitted at
\* least one page and then the error.
C35_Witness ==
    /\ requests_ahead_count = 1
    /\ turn = "finished"
    /\ Len(PagesOf(o_out)) >= 1
    /\ HasErr(o_out)
    /\ HasErr(u_out)
    /\ Len(PagesOf(u_out)) >= 1

\* The steps a driver has taken so far, read off its state: every action of
\* the driver adds at least one.
ProgressOfPages == Len(p_calls) + Len(p_out)
ProgressOfPagesAhead ==
    (MaxWindow + 2) * Len(o_out)
        + (IF o_pc = "await" THEN 1 ELSE 0)
        + Cardinality(o_ready)
ProgressOfUnordered ==
    2 * Len(u_out)
        + (IF u_pc # "idle" THEN 1 ELSE 0)
        + (u_numbered_requests.count - Cardinality(u_in_progress))
Progress == ProgressOfPages + ProgressOfPagesAhead + ProgressOfUnordered

\* No driver emits more pages than the backend has requests, and the pull
\* after a page or an error returns within MaxPulls pulls.
MaxPulls == MaxPages + 2
MaxProgress ==
    (2 * MaxPulls) + ((MaxWindow + 2) * MaxPulls + MaxWindow)
        + (2 * MaxPulls + 1 + MaxPages + MaxWindow)

\* The driver the caller is collecting can take a step: its pull when it
\* is idle, and when it awaits there is a fetch in flight to complete.
DriverCanStep ==
    /\ turn = "pages_ahead" => (o_pc = "idle" \/ o_in_progress # << >>)
    /\ turn = "pages_ahead_unordered" => (u_pc = "idle" \/ u_in_progress # {})

\* The stream has yielded its terminal outcome by the time it has been
\* pulled MaxPages + 1 times: at most MaxPages pages, then an error or the
\* end of the stream.
TerminalWithin(out) ==
    /\ Len(out) <= MaxPulls
    /\ \A i \in 1 .. Len(out) :
          /\ out[i][1] \in {"page", "err", "end"}
          /\ i > MaxPages => out[i][1] # "page"
          /\ (i > 1 /\ out[i][1] # "end") => out[i - 1][1] = "page"

\* What a step of a driver does: it adds to the measure, and the step that
\* takes a completion from the sequential or the ordered driver's fetches
\* returns.
DriverStep ==
    /\ Progress' > Progress
    /\ (IsSome(p_in_flight) /\ p_in_flight' # p_in_flight)
          => Len(p_out') = Len(p_out) + 1
    /\ (o_pc = "await" /\ o_in_progress' # o_in_progress)
          => (o_pc' = "idle" /\ Len(o_out') = Len(o_out) + 1)

\* What holds of the drivers in every state: none is stuck, the measure is
\* bounded, each stream yields its terminal outcome within MaxPages + 1
\* pulls, and the pull in progress has taken at most requests_ahead_count
\* completions out of at most requests_ahead_count fetches in flight.
DriverState ==
    /\ DriverCanStep
    /\ Progress <= MaxProgress
    /\ TerminalWithin(p_out) /\ TerminalWithin(o_out) /\ TerminalWithin(u_out)
    /\ u_taken <= requests_ahead_count
    /\ Cardinality(u_in_progress) <= requests_ahead_count
    /\ Len(o_in_progress) <= requests_ahead_count

====
